---- MODULE Spec2Model ----
(***************************************************************************)
(* Model of edge/printer_client.py: the PrinterEdgeClient state            *)
(* (status.status, current_job, status.current_material), the MQTT        *)
(* network thread that runs on_mqtt_message for one message at a time,    *)
(* the progress_updater threads started by simulate_print_process, the    *)
(* status_updater thread of simulated mode, and the two outbound topics.  *)
(*                                                                         *)
(* The printer id is one that contains none of the words jobs, commands,   *)
(* config (the default is printer-001), so that the substring tests of     *)
(* on_mqtt_message select by the last segment of the topic.                *)
(*                                                                         *)
(* Granularity.  on_mqtt_message runs to completion on the single network *)
(* thread, so one message is one action.  A progress_updater thread runs  *)
(* concurrently with it and with other progress_updater threads, so each  *)
(* of its reads and writes of self.current_job / self.status.status is a  *)
(* step of its own.                                                        *)
(***************************************************************************)
EXTENDS Naturals, Sequences, FiniteSets

VARIABLES
    main_pc,           \* position of run()/connect()
    status,            \* self.status.status
    current_job,       \* self.current_job: None or the job_id of the dict
    current_material,  \* self.status.current_material
    threads,           \* progress_updater threads, in order of creation
    h_msg,             \* the message last handed to on_mqtt_message
    n_msgs,            \* number of messages handed to on_mqtt_message
    h_result,          \* how the last call of on_mqtt_message ended
    job_status_topic,  \* 3dprinter/<id>/job_status: count and last event
    status_topic       \* 3dprinter/<id>/status: count and last event

vars == <<main_pc, status, current_job, current_material, threads,
          h_msg, n_msgs, h_result, job_status_topic, status_topic>>

\* ---------------------------------------------------------------- bounds
MaxMsgs == 2
MaxThreads == 2
MaxStatusUpdates == 2

\* ------------------------------------------------------------- constants
None == "None"
Missing == "<missing>"
JobIds == {"j1", "j2"}
GoodUrl == "s3://b/k"
GoneUrl == "s3://b/gone"
Urls == {GoodUrl, GoneUrl}
ProgressStep == 10
ProgressDone == 100

\* ------------------------------------------------------- inbound messages
\* A message is a topic plus the decoded JSON payload; a key the payload
\* lacks has the value Missing.
Msg(topic, type, job_id, file_url, command, material) ==
    [topic |-> topic, json |-> TRUE, type |-> type, job_id |-> job_id,
     file_url |-> file_url, command |-> command, material |-> material]

NoMsg == Msg(None, Missing, Missing, Missing, Missing, Missing)

StartMsgs ==
    { Msg("jobs", "start", j, u, Missing, Missing) :
        j \in JobIds \cup {Missing}, u \in Urls \cup {Missing} }

CtlMsgs ==
    { Msg("jobs", t, Missing, Missing, Missing, Missing) :
        t \in {"pause", "resume", "cancel"} }

UnknownJobMsgs ==
    { Msg("jobs", t, j, u, Missing, Missing) :
        t \in {"unknown", Missing}, j \in {"j2", Missing}, u \in {GoodUrl} }

CommandMsgs ==
    { Msg("commands", Missing, Missing, Missing, c, Missing) :
        c \in {"status", "home", "set_temperature", "reboot", Missing} }

\* the last one carries keys the config handler does not name
ConfigMsgs ==
    { Msg("config", Missing, Missing, Missing, Missing, m) :
        m \in {"ABS", Missing} }
    \cup { Msg("config", "start", "j2", GoodUrl, "status", "ABS") }

\* a topic that is none of the three, and a payload that is not JSON
OtherMsgs ==
    { Msg("telemetry", "start", "j1", GoodUrl, Missing, Missing),
      [Msg("jobs", Missing, Missing, Missing, Missing, Missing)
          EXCEPT !.json = FALSE] }

Msgs == StartMsgs \cup CtlMsgs \cup UnknownJobMsgs \cup CommandMsgs
          \cup ConfigMsgs \cup OtherMsgs

\* ---------------------------------------------------------------- events
JobStatusEvent(job_id, st, progress, error) ==
    [job_id |-> job_id, status |-> st, progress |-> progress, error |-> error]

NoJobStatusEvent == JobStatusEvent(None, None, 0, None)

StatusEvent(st, material) == [status |-> st, current_material |-> material]

NoStatusEvent == StatusEvent(None, None)

\* publish_job_status: one more event on the job_status topic
publish_job_status(job_id, st, progress, error) ==
    job_status_topic' =
        [count |-> job_status_topic.count + 1,
         last  |-> JobStatusEvent(job_id, st, progress, error)]

\* publish_status: one more event on the status topic
publish_status ==
    status_topic' =
        [count |-> status_topic.count + 1,
         last  |-> StatusEvent(status, current_material)]

\* ------------------------------------------------------------------ init
Init ==
    /\ main_pc = "init"
    /\ status = "offline"
    /\ current_job = None
    /\ current_material = ""
    /\ threads = << >>
    /\ h_msg = NoMsg
    /\ n_msgs = 0
    /\ h_result = "none"
    /\ job_status_topic = [count |-> 0, last |-> NoJobStatusEvent]
    /\ status_topic = [count |-> 0, last |-> NoStatusEvent]

\* str(e) of the exception start_print raises
StartPrintError == "can't start new thread"

\* --------------------------------------------------------------- threads
\* A progress_updater thread: its position, its local `progress`, and the
\* job_id of the start_print_job call that created it.
NewThread(job_id) == [pc |-> "while", progress |-> 0, job |-> job_id]

Alive(t) == t.pc \notin {"done", "crashed"}

\* ------------------------------------------------------- message handling
\* download_file_from_s3: the local path, or None when the download raises
download_file_from_s3(file_url) ==
    IF file_url = GoodUrl THEN "/tmp/prints/k" ELSE None

\* start_print_job reading file_url with .get(): a missing file_url
\* reaches download_file_from_s3, which fails on it and returns None
start_print_job_get(job_data) ==
    IF job_data.job_id = Missing
    THEN UNCHANGED <<status, current_job, threads, job_status_topic>>
    ELSE LET local_file == download_file_from_s3(job_data.file_url) IN
         IF local_file # None
         THEN /\ status' = "printing"
              /\ current_job' = job_data.job_id
              /\ \/ /\ threads' = Append(threads, NewThread(job_data.job_id))
                    /\ publish_job_status(job_data.job_id, "printing", 0,
                                          None)
                 \/ /\ UNCHANGED threads
                    /\ publish_job_status(job_data.job_id, "failed", 0,
                                          StartPrintError)
         ELSE /\ publish_job_status(job_data.job_id, "failed", 0,
                                    "Failed to download file")
              /\ UNCHANGED <<status, current_job, threads>>

\* start_print_job assigning status before it looks at the download result
start_print_job_eager(job_data) ==
    IF job_data.job_id = Missing
    THEN UNCHANGED <<status, current_job, threads, job_status_topic>>
    ELSE IF job_data.file_url = Missing
    THEN /\ publish_job_status(job_data.job_id, "failed", 0, "'file_url'")
         /\ UNCHANGED <<status, current_job, threads>>
    ELSE LET local_file == download_file_from_s3(job_data.file_url) IN
         /\ status' = "printing"
         /\ IF local_file # None
            THEN /\ current_job' = job_data.job_id
                 /\ threads' = Append(threads, NewThread(job_data.job_id))
                 /\ publish_job_status(job_data.job_id, "printing", 0, None)
            ELSE /\ publish_job_status(job_data.job_id, "failed", 0,
                                       "Failed to download file")
                 /\ UNCHANGED <<current_job, threads>>

\* start_print_job.  A missing job_id raises KeyError before job_id is
\* bound, so the except block itself raises and nothing is published; a
\* missing file_url raises KeyError('file_url') with job_id bound.  When
\* the file was fetched, status and current_job are assigned and then
\* start_print either starts the thread or raises (Thread.start() raises
\* RuntimeError when no thread can be created); the except block answers
\* that with a failed event and leaves the two assignments in place.
start_print_job(job_data) ==
    IF job_data.job_id = Missing
    THEN UNCHANGED <<status, current_job, threads, job_status_topic>>
    ELSE IF job_data.file_url = Missing
    THEN /\ publish_job_status(job_data.job_id, "failed", 0, "'file_url'")
         /\ UNCHANGED <<status, current_job, threads>>
    ELSE LET local_file == download_file_from_s3(job_data.file_url) IN
         IF local_file # None
         THEN /\ status' = "printing"
              /\ current_job' = job_data.job_id
              /\ \/ /\ threads' = Append(threads, NewThread(job_data.job_id))
                    /\ publish_job_status(job_data.job_id, "printing", 0,
                                          None)
                 \/ /\ UNCHANGED threads
                    /\ publish_job_status(job_data.job_id, "failed", 0,
                                          StartPrintError)
         ELSE /\ publish_job_status(job_data.job_id, "failed", 0,
                                    "Failed to download file")
              /\ UNCHANGED <<status, current_job, threads>>

\* handle_job_message with the type test of the first branch dropped: every
\* type but pause/resume/cancel starts a job
handle_job_message_untyped(payload) ==
    IF payload.type \in {"pause", "resume", "cancel"}
    THEN UNCHANGED <<status, current_job, current_material, threads,
                     job_status_topic, status_topic>>
    ELSE /\ start_print_job(payload)
         /\ UNCHANGED <<current_material, status_topic>>

\* handle_job_message.  pause_print_job, resume_print_job and
\* cancel_print_job are not defined on the class: the call raises
\* AttributeError, which on_mqtt_message catches and logs.
handle_job_message(payload) ==
    IF payload.type = "start"
    THEN /\ start_print_job(payload)
         /\ UNCHANGED <<current_material, status_topic>>
    ELSE IF payload.type \in {"pause", "resume", "cancel"}
    THEN UNCHANGED <<status, current_job, current_material, threads,
                     job_status_topic, status_topic>>
    ELSE UNCHANGED <<status, current_job, current_material, threads,
                     job_status_topic, status_topic>>

\* handle_command_message taking a status query as an acknowledgment that
\* returns the printer to online
handle_command_message_ack(payload) ==
    IF payload.command = "status"
    THEN /\ status' = "online"
         /\ publish_status
         /\ UNCHANGED <<current_job, current_material, threads,
                        job_status_topic>>
    ELSE UNCHANGED <<status, current_job, current_material, threads,
                     job_status_topic, status_topic>>

\* handle_command_message.  home_printer and set_temperature are not
\* defined on the class either.
handle_command_message(payload) ==
    IF payload.command = "status"
    THEN /\ publish_status
         /\ UNCHANGED <<status, current_job, current_material, threads,
                        job_status_topic>>
    ELSE IF payload.command \in {"home", "set_temperature"}
    THEN UNCHANGED <<status, current_job, current_material, threads,
                     job_status_topic, status_topic>>
    ELSE UNCHANGED <<status, current_job, current_material, threads,
                     job_status_topic, status_topic>>

\* handle_config_message merging every key it knows a handler for: a
\* payload that carries a type is also treated as a jobs message
handle_config_message_merge(payload) ==
    IF payload.type = "start"
    THEN /\ start_print_job(payload)
         /\ current_material' =
               IF payload.material # Missing THEN payload.material
               ELSE current_material
         /\ UNCHANGED status_topic
    ELSE /\ current_material' =
               IF payload.material # Missing THEN payload.material
               ELSE current_material
         /\ UNCHANGED <<status, current_job, threads, job_status_topic,
                        status_topic>>

\* handle_config_message
handle_config_message(payload) ==
    /\ current_material' =
          IF payload.material # Missing THEN payload.material
          ELSE current_material
    /\ UNCHANGED <<status, current_job, threads, job_status_topic,
                   status_topic>>

\* A start message that gets as far as starting a thread
StartsThread(m) ==
    /\ m.json /\ m.topic = "jobs" /\ m.type = "start"
    /\ m.job_id # Missing /\ m.file_url # Missing
    /\ download_file_from_s3(m.file_url) # None

\* The exception that leaves the body of on_mqtt_message's try block for
\* message m, None when the body ends normally
raised(m) ==
    IF ~m.json THEN "JSONDecodeError"
    ELSE IF m.topic = "jobs" /\ m.type = "start" /\ m.job_id = Missing
    THEN "UnboundLocalError"
    ELSE IF m.topic = "jobs" /\ m.type \in {"pause", "resume", "cancel"}
    THEN "AttributeError"
    ELSE IF m.topic = "commands" /\ m.command \in {"home", "set_temperature"}
    THEN "AttributeError"
    ELSE None

\* on_mqtt_message catching json.JSONDecodeError only
caught_json_only(exc) == exc = "JSONDecodeError"

\* The except clauses of on_mqtt_message: json.JSONDecodeError, then
\* Exception, of which every exception raised here is a subclass
caught(exc) ==
    \/ exc = "JSONDecodeError"
    \/ exc \in {"UnboundLocalError", "AttributeError", "KeyError", "TypeError"}

\* on_mqtt_message, run by the network thread once loop_start() was called.
\* An exception that escaped an earlier call has ended the network thread.
on_mqtt_message(m) ==
    /\ main_pc \in {"loop_started", "running"}
    /\ h_result # "escaped"
    /\ n_msgs < MaxMsgs
    /\ StartsThread(m) => Len(threads) < MaxThreads
    /\ h_msg' = m
    /\ n_msgs' = n_msgs + 1
    /\ h_result' = IF raised(m) = None THEN "returned"
                   ELSE IF caught(raised(m)) THEN "logged"
                   ELSE "escaped"
    /\ UNCHANGED main_pc
    /\ IF ~m.json
       THEN UNCHANGED <<status, current_job, current_material, threads,
                        job_status_topic, status_topic>>
       ELSE IF m.topic = "jobs" THEN handle_job_message(m)
       ELSE IF m.topic = "commands" THEN handle_command_message(m)
       ELSE IF m.topic = "config" THEN handle_config_message(m)
       ELSE UNCHANGED <<status, current_job, current_material, threads,
                        job_status_topic, status_topic>>

\* ------------------------------------------------------- progress_updater
SetThread(i, pc, progress) ==
    threads' = [threads EXCEPT ![i] = [@ EXCEPT !.pc = pc,
                                                !.progress = progress]]

\* `while progress < 100 and self.current_job:`
updater_while(i) ==
    /\ threads[i].pc = "while"
    /\ IF threads[i].progress < ProgressDone /\ current_job # None
       THEN SetThread(i, "sleep", threads[i].progress)
       ELSE SetThread(i, "done", threads[i].progress)
    /\ UNCHANGED <<main_pc, status, current_job, current_material, h_msg,
                   h_result, n_msgs, job_status_topic, status_topic>>

\* time.sleep(10); progress += 10; publish_job_status(
\*     self.current_job['job_id'], "printing", progress).
\* Subscripting None raises TypeError, which nothing in the thread catches.
updater_tick(i) ==
    /\ threads[i].pc = "sleep"
    /\ LET progress == threads[i].progress + ProgressStep IN
       IF current_job = None
       THEN /\ SetThread(i, "crashed", progress)
            /\ UNCHANGED job_status_topic
       ELSE /\ publish_job_status(current_job, "printing", progress, None)
            /\ SetThread(i, IF progress >= ProgressDone THEN "complete_if"
                                                         ELSE "while",
                          progress)
    /\ UNCHANGED <<main_pc, status, current_job, current_material, h_msg,
                   h_result, n_msgs, status_topic>>

\* complete_print_job, `if self.current_job:`; when false the call returns
\* and the loop breaks
complete_if(i) ==
    /\ threads[i].pc = "complete_if"
    /\ SetThread(i, IF current_job # None THEN "set_online" ELSE "done",
                  threads[i].progress)
    /\ UNCHANGED <<main_pc, status, current_job, current_material, h_msg,
                   h_result, n_msgs, job_status_topic, status_topic>>

\* complete_print_job, the log line that reads self.current_job['job_id']
\* and `self.status.status = "online"`
complete_set_online(i) ==
    /\ threads[i].pc = "set_online"
    /\ IF current_job = None
       THEN /\ SetThread(i, "crashed", threads[i].progress)
            /\ UNCHANGED status
       ELSE /\ SetThread(i, "clear_job", threads[i].progress)
            /\ status' = "online"
    /\ UNCHANGED <<main_pc, current_job, current_material, h_msg, h_result,
                   n_msgs,
                   job_status_topic, status_topic>>

\* complete_print_job, `self.current_job = None`
complete_clear_job(i) ==
    /\ threads[i].pc = "clear_job"
    /\ current_job' = None
    /\ SetThread(i, "publish_completed", threads[i].progress)
    /\ UNCHANGED <<main_pc, status, current_material, h_msg, h_result, n_msgs,
                   job_status_topic, status_topic>>

\* complete_print_job, publish_job_status(self.current_job['job_id'],
\* "completed", 100): self.current_job is read again, after it was cleared
complete_publish(i) ==
    /\ threads[i].pc = "publish_completed"
    /\ IF current_job = None
       THEN /\ SetThread(i, "crashed", threads[i].progress)
            /\ UNCHANGED job_status_topic
       ELSE /\ publish_job_status(current_job, "completed", ProgressDone, None)
            /\ SetThread(i, "done", threads[i].progress)
    /\ UNCHANGED <<main_pc, status, current_job, current_material, h_msg,
                   h_result, n_msgs, status_topic>>

progress_updater(i) ==
    \/ updater_while(i)
    \/ updater_tick(i)
    \/ complete_if(i)
    \/ complete_set_online(i)
    \/ complete_clear_job(i)
    \/ complete_publish(i)

\* ------------------------------------------------------------ run/connect
\* connect(): mqtt_client.connect(...); mqtt_client.loop_start()
connect_loop_start ==
    /\ main_pc = "init"
    /\ main_pc' = "loop_started"
    /\ UNCHANGED <<status, current_job, current_material, threads, h_msg,
                   h_result, n_msgs, job_status_topic, status_topic>>

\* connect(): self.status.status = "online", after loop_start()
connect_set_online ==
    /\ main_pc = "loop_started"
    /\ main_pc' = "running"
    /\ status' = "online"
    /\ UNCHANGED <<current_job, current_material, threads, h_msg, h_result,
                   n_msgs,
                   job_status_topic, status_topic>>

\* connect_simulated(): no certificates, the MQTT loop is never started
connect_simulated ==
    /\ main_pc = "init"
    /\ main_pc' = "simulated"
    /\ status' = "online"
    /\ UNCHANGED <<current_job, current_material, threads, h_msg, h_result,
                   n_msgs,
                   job_status_topic, status_topic>>

\* status_updater thread of simulated mode: sleep(30); publish_status()
status_updater ==
    /\ main_pc = "simulated"
    /\ status_topic.count < MaxStatusUpdates
    /\ publish_status
    /\ UNCHANGED <<main_pc, status, current_job, current_material, threads,
                   h_msg, h_result, n_msgs, job_status_topic>>

\* run(): KeyboardInterrupt or an error ends the main loop, cleanup() stops
\* the MQTT loop and disconnects, run() returns and the process ends; the
\* daemon threads end with it.  Nothing is published and status is not
\* assigned.
cleanup ==
    /\ main_pc \in {"loop_started", "running", "simulated"}
    /\ main_pc' = "stopped"
    /\ threads' = << >>
    /\ UNCHANGED <<status, current_job, current_material, h_msg, h_result,
                   n_msgs, job_status_topic, status_topic>>

\* ------------------------------------------------------------------ spec
Next ==
    \/ cleanup
    \/ connect_loop_start
    \/ connect_set_online
    \/ connect_simulated
    \/ status_updater
    \/ \E m \in Msgs : on_mqtt_message(m)
    \/ \E i \in 1..Len(threads) : progress_updater(i)

Spec == Init /\ [][Next]_vars

\* Every progress_updater thread is an operating-system thread that sleeps
\* ten seconds at most between two steps: each one keeps being scheduled.
\* Message arrival, connect and shutdown carry no fairness.
FairSpec ==
    /\ Spec
    /\ \A i \in 1..MaxThreads :
          WF_vars(i <= Len(threads) /\ progress_updater(i))

TypeOK ==
    /\ main_pc \in {"init", "loop_started", "running", "simulated", "stopped"}
    /\ h_result \in {"none", "returned", "logged", "escaped"}
    /\ status \in {"offline", "online", "printing"}
    /\ current_job \in JobIds \cup {None}
    /\ n_msgs \in 0..MaxMsgs
    /\ Len(threads) <= MaxThreads

\* ================================================================ claims
\* The step in which on_mqtt_message was handed message m
Received(m) == n_msgs' = n_msgs + 1 /\ h_msg' = m

AliveThreads == { i \in 1..Len(threads) : Alive(threads[i]) }

\* C1: a StartJob for a different job id, processed while a job is active,
\* is rejected: job, lifecycle state and tasks are unchanged and the event
\* published for the new id is failed / 0 / AlreadyPrinting.  (Stated for a
\* well-formed message whose file can be fetched.)
C1_StartWhileActiveRejected ==
    [][\A m \in StartMsgs :
        ( /\ Received(m)
          /\ main_pc = "running"
          /\ current_job # None
          /\ m.job_id \notin {Missing, current_job}
          /\ m.file_url = GoodUrl )
        => /\ current_job' = current_job
           /\ status' = status
           /\ threads' = threads
           /\ job_status_topic'.last =
                 JobStatusEvent(m.job_id, "failed", 0, "AlreadyPrinting")]_vars

\* C2: one successful StartJob and nothing else: once the task has done
\* its ticks up to 100 and ended, the last job_status event is
\* completed / 100 for that job, no job is active and the state is online.
C2_CompletedEventLast ==
    ( /\ main_pc = "running"
      /\ n_msgs = 1
      /\ StartsThread(h_msg)
      /\ Len(threads) = 1
      /\ threads[1].progress = ProgressDone
      /\ ~Alive(threads[1]) )
    => /\ job_status_topic.last =
             JobStatusEvent(h_msg.job_id, "completed", ProgressDone, None)
       /\ current_job = None
       /\ status = "online"

\* C3: the lifecycle state is printing iff a job exists and is not paused,
\* paused iff a job exists and is paused; no job exists while online,
\* offline or error.  The code has no paused flag: a job counts as paused
\* iff the state is paused.  Stated for the states in which connect() has
\* returned and no thread is between the two assignments of
\* complete_print_job.
C3_StateMatchesJob ==
    ( /\ main_pc = "running"
      /\ \A i \in 1..Len(threads) : threads[i].pc # "clear_job" )
    => /\ status \in {"printing", "paused"} <=> current_job # None
       /\ status \in {"online", "offline", "error"} => current_job = None

\* C4: at most one progress task is alive
C4_OneTaskAlive == Cardinality(AliveThreads) <= 1

\* C5: a tick of a task created for job j, taken while the active job is
\* absent or has another id, changes neither lifecycle state nor job and
\* publishes no job_status event.
C5_StaleTickNoOp ==
    [][\A i \in 1..Len(threads) :
        ( /\ main_pc = "running"
          /\ threads[i].pc = "sleep"
          /\ i <= Len(threads')
          /\ threads'[i].pc # "sleep"
          /\ current_job # threads[i].job )
        => UNCHANGED <<status, current_job, job_status_topic>>]_vars

\* C6: CancelJob processed while printing or paused clears the job, sets
\* the state to online and publishes cancelled with the last progress
\* reported for that job.
C6_CancelClearsJob ==
    [][\A m \in CtlMsgs :
        ( /\ Received(m)
          /\ main_pc = "running"
          /\ m.type = "cancel"
          /\ status \in {"printing", "paused"}
          /\ current_job # None
          /\ job_status_topic.last.job_id = current_job )
        => /\ current_job' = None
           /\ status' = "online"
           /\ job_status_topic'.last =
                 JobStatusEvent(current_job, "cancelled",
                                job_status_topic.last.progress, None)]_vars

\* C7: after a PauseJob was processed for the active job and until the next
\* message is processed, the progress reported for that job does not grow.
C7_NoProgressWhilePaused ==
    [][( /\ h_msg.topic = "jobs" /\ h_msg.json /\ h_msg.type = "pause"
         /\ n_msgs' = n_msgs
         /\ main_pc = "running"
         /\ current_job # None
         /\ job_status_topic.last.job_id = current_job
         /\ job_status_topic'.last.job_id = current_job )
       => job_status_topic'.last.progress
             <= job_status_topic.last.progress]_vars

\* C8: PauseJob processed while printing moves the state to paused and
\* leaves the task alive; ResumeJob processed while paused moves it back
\* to printing.
C8_PauseResume ==
    [][\A m \in CtlMsgs :
        /\ ( Received(m) /\ m.type = "pause" /\ status = "printing" )
             => ( status' = "paused" /\ threads' = threads )
        /\ ( Received(m) /\ m.type = "resume" /\ status = "paused" )
             => ( status' = "printing" /\ threads' = threads )]_vars

\* A jobs message whose type, or a commands message whose command, is
\* missing or not one of those the handlers name
Unrouted(m) ==
    /\ m.json
    /\ \/ m.topic = "jobs"
          /\ m.type \notin {"start", "pause", "resume", "cancel"}
       \/ m.topic = "commands"
          /\ m.command \notin {"status", "home", "set_temperature"}

\* C9: a jobs message with a missing or unknown type, or a commands message
\* with a missing or unknown command, changes neither lifecycle state nor
\* job, starts no task and publishes no job_status event.
C9_UnknownDropped ==
    [][\A m \in Msgs :
        ( Received(m) /\ Unrouted(m) )
        => UNCHANGED <<status, current_job, threads, job_status_topic>>]_vars

\* an unknown jobs message was dropped while a job was printing
C9_Witness ==
    /\ Unrouted(h_msg) /\ h_msg.topic = "jobs" /\ h_msg.job_id # Missing
    /\ main_pc = "running" /\ n_msgs = 2
    /\ status = "printing" /\ current_job = "j1"
    /\ Len(threads) = 1 /\ Alive(threads[1])

\* A start message that lacks job_id or file_url
MalformedStart(m) ==
    /\ m.json /\ m.topic = "jobs" /\ m.type = "start"
    /\ (m.job_id = Missing \/ m.file_url = Missing)

\* C10 as claimed: a start message that lacks job_id or file_url changes
\* nothing and publishes no job_status event.
C10_MalformedStartSilent ==
    [][\A m \in StartMsgs :
        ( Received(m) /\ MalformedStart(m) )
        => UNCHANGED <<status, current_job, threads, job_status_topic>>]_vars

\* C10 as amended: such a message leaves lifecycle state and job unchanged
\* and starts no task; without job_id nothing is published, with job_id
\* (file_url missing) exactly one job_status event failed / 0 is published
\* for that job_id, its error naming the missing key.
C10_MalformedStartNoStateChange ==
    [][\A m \in StartMsgs :
        ( Received(m) /\ MalformedStart(m) )
        => /\ UNCHANGED <<status, current_job, threads>>
           /\ IF m.job_id = Missing
              THEN UNCHANGED job_status_topic
              ELSE job_status_topic' =
                     [count |-> job_status_topic.count + 1,
                      last  |-> JobStatusEvent(m.job_id, "failed", 0,
                                               "'file_url'")]]_vars

\* a start message without file_url was answered with a failed event while
\* another job kept printing
C10_Witness ==
    /\ MalformedStart(h_msg) /\ h_msg.job_id = "j2"
    /\ job_status_topic.last = JobStatusEvent("j2", "failed", 0, "'file_url'")
    /\ main_pc = "running"
    /\ status = "printing" /\ current_job = "j1"
    /\ Len(threads) = 1 /\ Alive(threads[1])

\* C11: PauseJob, ResumeJob or CancelJob processed when no job is active
\* leaves lifecycle state and job unchanged and publishes one job_status
\* event with status failed.
C11_RejectedCommandReported ==
    [][\A m \in CtlMsgs :
        ( Received(m) /\ main_pc = "running" /\ current_job = None )
        => /\ UNCHANGED <<status, current_job>>
           /\ job_status_topic'.count = job_status_topic.count + 1
           /\ job_status_topic'.last.status = "failed"]_vars

\* C12: whatever the topic and the payload, no exception escapes
\* on_mqtt_message, so the network thread stays able to take the next
\* message.
C12_HandlerNeverRaises == h_result # "escaped"

\* a cancel, whose handling raises, was logged as the second message while
\* a job was printing
C12_Witness ==
    /\ h_result = "logged" /\ raised(h_msg) = "AttributeError"
    /\ h_msg.type = "cancel"
    /\ main_pc = "running" /\ n_msgs = 2
    /\ current_job = "j1" /\ status = "printing"

\* The step in which start_print raised inside start_print_job
StartPrintFault(m) ==
    /\ Received(m)
    /\ job_status_topic'.count = job_status_topic.count + 1
    /\ job_status_topic'.last.error = StartPrintError

\* C13: a device fault moves the lifecycle state to error, clears the
\* active job and publishes a status event.  The one fault the code can
\* meet is start_print raising.
C13_FaultMovesToError ==
    [][\A m \in StartMsgs :
        ( StartPrintFault(m) /\ main_pc = "running" )
        => /\ status' = "error"
           /\ current_job' = None
           /\ status_topic'.count = status_topic.count + 1]_vars

\* C14: a status command leaves lifecycle state, job, material, tasks and
\* the job_status topic unchanged and publishes exactly one status event
\* that shows the current state.
C14_QueryStatusReadOnly ==
    [][\A m \in CommandMsgs :
        ( Received(m) /\ m.command = "status" )
        => /\ UNCHANGED <<status, current_job, current_material, threads,
                          job_status_topic>>
           /\ status_topic' =
                 [count |-> status_topic.count + 1,
                  last  |-> StatusEvent(status, current_material)]]_vars

\* a status command was answered while job j1 was printing
C14_Witness ==
    /\ h_msg.topic = "commands" /\ h_msg.command = "status"
    /\ main_pc = "running" /\ n_msgs = 2
    /\ status_topic = [count |-> 1, last |-> StatusEvent("printing", "")]
    /\ status = "printing" /\ current_job = "j1"
    /\ Len(threads) = 1 /\ Alive(threads[1])

\* The step in which run() left its loop and cleanup() ran
Shutdown == main_pc # "stopped" /\ main_pc' = "stopped"

\* C15: on shutdown the running progress task is cancelled and a final
\* status event with status offline is published.  (Stated for a shutdown
\* of the connected client with a task running.)
C15_ShutdownPublishesOffline ==
    [][( Shutdown /\ main_pc = "running" /\ AliveThreads # {} )
        => /\ \A i \in 1..Len(threads') : ~Alive(threads'[i])
           /\ status_topic'.count = status_topic.count + 1
           /\ status_topic'.last.status = "offline"]_vars

\* C16: a config message sets current_material to payload.material when
\* that key is present and changes nothing else, whatever other keys the
\* payload carries; it publishes nothing.
C16_ConfigOnlyMaterial ==
    [][\A m \in ConfigMsgs :
        Received(m)
        => /\ UNCHANGED <<status, current_job, threads, job_status_topic,
                          status_topic>>
           /\ current_material' = IF m.material = Missing
                                  THEN current_material
                                  ELSE m.material]_vars

\* a config message that also carried jobs and commands keys set the
\* material while job j1 kept printing
C16_Witness ==
    /\ h_msg.topic = "config" /\ h_msg.type = "start"
    /\ current_material = "ABS"
    /\ main_pc = "running" /\ n_msgs = 2
    /\ status = "printing" /\ current_job = "j1"
    /\ Len(threads) = 1 /\ Alive(threads[1])

\* C17: a progress task ends only by completing or by seeing that the job
\* is gone, never through an unhandled error.
C17_NoTaskCrashes ==
    \A i \in 1..Len(threads) : threads[i].pc # "crashed"

\* The state right after the k-th message, a StartJob that started its task
JustStarted(k) ==
    /\ n_msgs = k
    /\ StartsThread(h_msg)
    /\ job_status_topic.last =
          JobStatusEvent(h_msg.job_id, "printing", 0, None)
    /\ Len(threads) >= 1
    /\ threads[Len(threads)] = NewThread(h_msg.job_id)

\* No job, state online, every progress task ended
JobOver ==
    /\ current_job = None
    /\ status = "online"
    /\ AliveThreads = {}

\* C18: after a successful StartJob, with fair scheduling of the progress
\* tasks, either a further message arrives or the process is shut down,
\* or the system reaches a state with no job, lifecycle state online and
\* the task ended.
C18_JobEventuallyOver ==
    \A k \in 1..MaxMsgs :
        JustStarted(k) ~> (JobOver \/ n_msgs > k \/ main_pc = "stopped")

\* C19: the job_status events that ticks publish for one job id carry a
\* progress within 0..100 that never decreases from one event to the next.
\* (Stated for two consecutive events of the same job id of which the
\* second comes from a tick.)
C19_ProgressMonotonic ==
    [][( /\ main_pc = "running"
         /\ n_msgs' = n_msgs
         /\ job_status_topic'.count = job_status_topic.count + 1
         /\ job_status_topic.last.job_id = job_status_topic'.last.job_id )
       => /\ job_status_topic'.last.progress \in 0..ProgressDone
          /\ job_status_topic'.last.progress
                >= job_status_topic.last.progress]_vars

\* A well-formed start message whose file cannot be fetched
FetchFails(m) ==
    /\ m.json /\ m.topic = "jobs" /\ m.type = "start"
    /\ m.job_id # Missing /\ m.file_url # Missing
    /\ download_file_from_s3(m.file_url) = None

\* C20: a well-formed StartJob whose file retrieval fails leaves lifecycle
\* state and job as they were, starts no task and publishes exactly one
\* job_status event for the requested id, failed with progress 0.
C20_FetchFailureReported ==
    [][\A m \in StartMsgs :
        ( Received(m) /\ FetchFails(m) )
        => /\ UNCHANGED <<status, current_job, threads>>
           /\ job_status_topic'.count = job_status_topic.count + 1
           /\ job_status_topic'.last.job_id = m.job_id
           /\ job_status_topic'.last.status = "failed"
           /\ job_status_topic'.last.progress = 0]_vars

\* the fetch for j2 failed and was reported while job j1 kept printing
C20_Witness ==
    /\ FetchFails(h_msg) /\ h_msg.job_id = "j2"
    /\ job_status_topic.last =
          JobStatusEvent("j2", "failed", 0, "Failed to download file")
    /\ main_pc = "running"
    /\ status = "printing" /\ current_job = "j1"
    /\ Len(threads) = 1 /\ Alive(threads[1])

====
